---------------------------- MODULE Spec2Model ----------------------------
(***************************************************************************)
(* LEB128 reader and writer of src/src/lib.rs.                             *)
(*                                                                         *)
(* A 64-bit machine word (u64, or i64 in two's complement) is a tuple of   *)
(* ten limbs: limb j (1..10) holds bits 7(j-1) .. 7j-1 of the word, so     *)
(* limbs 1..9 hold seven bits each and limb 10 holds bit 63 alone.  The    *)
(* code shifts by multiples of seven only, so every operation of the code  *)
(* is exact on limbs.  Mathematical integers beyond the word width (the    *)
(* value a byte sequence stands for) are 128-adic numbers: a tuple of      *)
(* base-128 digits followed by a fill digit repeated forever (0 for a      *)
(* non-negative number, 127 for a negative one).                           *)
(***************************************************************************)
EXTENDS Integers, Sequences, FiniteSets, TLC

VARIABLES
    stream,   \* the bytes of the buffer the sink appends to and the source reads
    sink,     \* the byte sink's behaviour and the room it has left
    rpos,     \* how many bytes of stream the byte source has delivered
    wr,       \* the frame of the running write:: call
    rd,       \* the frame of the running read:: call
    wlog,     \* the write:: calls that returned, in order
    rlog      \* the read:: calls that returned, in order

vars == <<stream, sink, rpos, wr, rd, wlog, rlog>>

-----------------------------------------------------------------------------
(* Bounds of the model *)

\* longest run of one repeated byte at the head of a preloaded input
MaxRep == 31
\* read:: calls made on one stream
MaxReads == 2
\* values written back-to-back into one stream
MaxValues == 2
\* largest room of a bounded or failing sink
MaxRoom == 2

-----------------------------------------------------------------------------
(* Constants of the program *)

CONTINUATION_BIT == 128
SIGN_BIT == 64
\* `let size = 64`, and the width of u64 and i64
size == 64
\* the shift added per byte
PayloadBits == 7
\* u8::MAX
U8Max == 255

-----------------------------------------------------------------------------
(* Bit operations on bytes *)

RECURSIVE BitAnd(_, _)
BitAnd(a, b) ==
    IF a = 0 \/ b = 0 THEN 0
    ELSE (a % 2) * (b % 2) + 2 * BitAnd(a \div 2, b \div 2)

RECURSIVE BitOr(_, _)
BitOr(a, b) ==
    IF a = 0 THEN b
    ELSE IF b = 0 THEN a
    ELSE (IF a % 2 = 1 \/ b % 2 = 1 THEN 1 ELSE 0) + 2 * BitOr(a \div 2, b \div 2)

\* !x on a u8
BitNot8(a) == U8Max - a

RECURSIVE BitLen(_)
BitLen(x) == IF x = 0 THEN 0 ELSE 1 + BitLen(x \div 2)

\* byte & !CONTINUATION_BIT
low_bits_of_byte(byte) == BitAnd(byte, BitNot8(CONTINUATION_BIT))

-----------------------------------------------------------------------------
(* 64-bit words as limbs *)

NLimbs == (size + PayloadBits - 1) \div PayloadBits

Limbs == 1..NLimbs

\* the bits limb j holds
LimbWidth(j) == IF j * PayloadBits <= size THEN PayloadBits ELSE size - (j - 1) * PayloadBits

LimbMax(j) == 2 ^ LimbWidth(j) - 1

Zero64 == [j \in Limbs |-> 0]

\* -1 as i64, u64::MAX as u64
Ones64 == [j \in Limbs |-> LimbMax(j)]

\* i64::MIN: bit 63 alone
Min64 == [j \in Limbs |-> IF j = NLimbs THEN 1 ELSE 0]

\* bit 63
SignOf(w) == w[NLimbs] \div 2 ^ (LimbWidth(NLimbs) - 1)

\* a | b
Or64(a, b) == [j \in Limbs |-> BitOr(a[j], b[j])]

\* val >> 7 on u64: zeros come in at the top
Lshr7(w) ==
    [j \in Limbs |-> IF j < NLimbs - 1 THEN w[j + 1]
                     ELSE IF j = NLimbs - 1 THEN w[NLimbs]
                     ELSE 0]

\* val >> 7 on i64: copies of the sign bit come in at the top
Ashr7(w) ==
    [j \in Limbs |-> IF j < NLimbs - 1 THEN w[j + 1]
                     ELSE IF j = NLimbs - 1
                          THEN w[NLimbs] + SignOf(w) * (LimbMax(j) - LimbMax(NLimbs))
                     ELSE SignOf(w)]

\* x.leading_zeros() of a 64-bit x that holds a 7-bit payload
leading_zeros(x) == size - BitLen(x)

\* low_bits << shift for shift < 64 a multiple of 7: bits pushed past bit 63 are lost
ShlWord(low_bits, shift) ==
    [j \in Limbs |-> IF j = shift \div PayloadBits + 1
                     THEN low_bits % (LimbMax(j) + 1)
                     ELSE 0]

\* The outcomes of `low_bits << shift`: a shift amount of 64 or more panics in a
\* build with overflow checks and is masked to six bits in one without.
ShlOutcomes(low_bits, shift) ==
    IF shift < size
    THEN {[panic |-> FALSE, value |-> ShlWord(low_bits, shift)]}
    ELSE {[panic |-> TRUE, value |-> Zero64],
          [panic |-> FALSE, value |-> ShlWord(low_bits, shift % size)]}

\* -(w) for the words 1 << shift the code negates: every bit from the set bit up
NegPow2(w) ==
    LET low == CHOOSE j \in Limbs : w[j] # 0
    IN  [j \in Limbs |-> IF j < low THEN 0
                         ELSE IF j = low THEN LimbMax(j) + 1 - w[j]
                         ELSE LimbMax(j)]

\* The outcomes of `-(1 << shift)`: negating i64::MIN panics in a build with
\* overflow checks and wraps to i64::MIN in one without.
NegOutcomes(w) ==
    IF w = Min64
    THEN {[panic |-> TRUE, value |-> Zero64], [panic |-> FALSE, value |-> Min64]}
    ELSE {[panic |-> FALSE, value |-> NegPow2(w)]}

\* val & (u8::MAX as u64), as u8
LowByte(w) == w[1] + (LimbMax(1) + 1) * (w[2] % 2)

\* low_bits_of_u64
low_bits_of_u64(val) == low_bits_of_byte(LowByte(val))

\* (val as u64 & !(CONTINUATION_BIT as u64)) as u8
SignedLowBits(val) == BitAnd(LowByte(val), BitNot8(CONTINUATION_BIT))

-----------------------------------------------------------------------------
(* The byte sink and the byte source (std::io::Write and std::io::Read) *)

\* What one w.write(&buf) of a single byte returns: a growable sink takes every
\* byte; a fixed-size buffer takes bytes while it has room and then reports
\* Ok(0); a failing sink takes bytes while it has room and then reports Err.
SinkWrite(s) ==
    CASE s.kind = "vec" -> [n |-> 1, err |-> FALSE]
      [] s.kind = "slice" -> [n |-> IF s.room > 0 THEN 1 ELSE 0, err |-> FALSE]
      [] s.kind = "failing" -> [n |-> IF s.room > 0 THEN 1 ELSE 0, err |-> s.room = 0]

SinkAfter(s, n) == IF s.kind = "vec" THEN s ELSE [s EXCEPT !.room = @ - n]

\* What one r.read(&mut buf) into a one-byte buffer returns: the next byte, or
\* zero bytes at the end of the data, or (any source may) an io::Error.
SourceRead(bytes, pos) ==
    {[n |-> IF pos < Len(bytes) THEN 1 ELSE 0,
      byte |-> IF pos < Len(bytes) THEN bytes[pos + 1] ELSE 0,
      err |-> FALSE],
     [n |-> 0, byte |-> 0, err |-> TRUE]}

-----------------------------------------------------------------------------
(* write::unsigned and write::signed *)

WIdle == [pc |-> "idle", kind |-> "none", arg |-> Zero64, val |-> Zero64,
          more |-> FALSE, bytes_written |-> 0, start |-> 0, emitted |-> <<>>]

\* byte |= CONTINUATION_BIT
SetContinuation(byte) == BitOr(byte, CONTINUATION_BIT)

\* SignedDone with the tests of the payload's sign bit left out
SignedDoneNoSign(val, byte) == val = Zero64 \/ val = Ones64

\* the test that ends write::signed's loop
SignedDone(val, byte) ==
    \/ val = Zero64 /\ BitAnd(byte, SIGN_BIT) = 0
    \/ val = Ones64 /\ BitAnd(byte, SIGN_BIT) = SIGN_BIT

\* the byte one iteration of write::unsigned hands to the sink
UnsignedByte(val) ==
    IF Lshr7(val) # Zero64
    THEN SetContinuation(low_bits_of_u64(val))
    ELSE low_bits_of_u64(val)

\* the byte one iteration of write::signed hands to the sink
SignedByte(val) ==
    IF SignedDone(Ashr7(val), SignedLowBits(val))
    THEN SignedLowBits(val)
    ELSE SetContinuation(SignedLowBits(val))

WReturn(frame, res) ==
    [kind |-> frame.kind, arg |-> frame.arg, start |-> frame.start,
     res |-> res, n |-> frame.bytes_written, emitted |-> frame.emitted]

CanCall == wr.pc = "idle" /\ rd.pc = "idle"

WriteUnsignedCall(v) ==
    /\ CanCall
    /\ rlog = <<>>
    /\ wr' = [WIdle EXCEPT !.pc = "loop", !.kind = "unsigned", !.arg = v,
                           !.val = v, !.start = Len(stream)]
    /\ UNCHANGED <<stream, sink, rpos, rd, wlog, rlog>>

WriteSignedCall(v) ==
    /\ CanCall
    /\ rlog = <<>>
    /\ wr' = [WIdle EXCEPT !.pc = "loop", !.kind = "signed", !.arg = v,
                           !.val = v, !.more = TRUE, !.start = Len(stream)]
    /\ UNCHANGED <<stream, sink, rpos, rd, wlog, rlog>>

\* One iteration of a writer's loop: `byte` is handed to the sink, `val` is the
\* shifted value and `last` says that the loop ends after this byte.
WriteIteration(byte, val, last) ==
    LET w == SinkWrite(sink)
        frame == [wr EXCEPT !.val = val, !.more = ~last,
                            !.emitted = Append(@, byte),
                            !.bytes_written = @ + w.n]
    IN  /\ stream' = IF w.n = 1 THEN Append(stream, byte) ELSE stream
        /\ sink' = SinkAfter(sink, w.n)
        /\ IF w.err
           THEN /\ wlog' = Append(wlog, WReturn([frame EXCEPT !.bytes_written = wr.bytes_written], "Err"))
                /\ wr' = WIdle
           ELSE IF last
           THEN /\ wlog' = Append(wlog, WReturn(frame, "Ok"))
                /\ wr' = WIdle
           ELSE /\ wlog' = wlog
                /\ wr' = frame
        /\ UNCHANGED <<rpos, rd, rlog>>

WriteUnsignedStep ==
    /\ wr.pc = "loop"
    /\ wr.kind = "unsigned"
    /\ WriteIteration(UnsignedByte(wr.val), Lshr7(wr.val), Lshr7(wr.val) = Zero64)

WriteSignedStep ==
    /\ wr.pc = "loop"
    /\ wr.kind = "signed"
    /\ wr.more
    /\ WriteIteration(SignedByte(wr.val), Ashr7(wr.val),
                      SignedDone(Ashr7(wr.val), SignedLowBits(wr.val)))

-----------------------------------------------------------------------------
(* read::unsigned and read::signed *)

\* A frame also keeps what the call has executed so far: the number of r.read
\* calls, the number of those that returned zero bytes, the shift amounts of
\* the left shifts and the words it has negated.
RIdle == [pc |-> "idle", kind |-> "none", result |-> Zero64, shift |-> 0,
          byte |-> 0, start |-> 0, reads |-> 0, zero_reads |-> 0,
          shifts |-> {}, negated |-> {}]

\* ShortRead as `> 1`: a read of zero bytes goes on with the buffer's zero
ShortReadAbove(n) == n > 1

\* `r.read(&mut buf) != 1`
ShortRead(n) == n # 1

\* UnsignedOverflow as `<=`: a payload that reaches bit 63 exactly is refused
UnsignedOverflowInclusive(low_bits, shift) == leading_zeros(low_bits) <= shift

\* UnsignedOverflow tested against the shift of the byte before
UnsignedOverflowLate(low_bits, shift) == leading_zeros(low_bits) < shift - PayloadBits

\* `low_bits.leading_zeros() < shift` of read::unsigned
UnsignedOverflow(low_bits, shift) == leading_zeros(low_bits) < shift

\* `low_bits.leading_zeros() < shift` of read::signed
SignedOverflow(low_bits, shift) == leading_zeros(low_bits) < shift

\* `buf[0] & CONTINUATION_BIT == 0`
LastByte(byte) == BitAnd(byte, CONTINUATION_BIT) = 0

\* `shift < size && (SIGN_BIT & byte) == SIGN_BIT`
NeedsSignExtension(shift, byte) == shift < size /\ BitAnd(SIGN_BIT, byte) = SIGN_BIT

\* the literal 1 of `1 << shift`
One == 1

RReturn(frame, res, pos) ==
    [kind |-> frame.kind, start |-> frame.start, end |-> pos, res |-> res,
     value |-> frame.result, reads |-> frame.reads,
     zero_reads |-> frame.zero_reads, shifts |-> frame.shifts,
     negated |-> frame.negated]

\* The caller reads on only after a value (the tests `expect` every result).
ReadCall(kind) ==
    /\ CanCall
    /\ Len(rlog) < MaxReads
    /\ rlog # <<>> => rlog[Len(rlog)].res = "Ok"
    /\ rd' = [RIdle EXCEPT !.pc = "loop", !.kind = kind, !.start = rpos]
    /\ UNCHANGED <<stream, sink, rpos, wr, wlog, rlog>>

ReadUnsignedCall == ReadCall("unsigned")

ReadSignedCall == ReadCall("signed")

\* the call returns `res`, having moved the source to `pos`
Returns(frame, res, pos) ==
    /\ rlog' = Append(rlog, RReturn(frame, res, pos))
    /\ rd' = RIdle
    /\ rpos' = pos

\* One iteration of read::unsigned's loop.
ReadUnsignedStep ==
    /\ rd.pc = "loop"
    /\ rd.kind = "unsigned"
    /\ \E o \in SourceRead(stream, rpos) :
         LET f0 == [rd EXCEPT !.reads = @ + 1,
                              !.zero_reads = @ + (IF ~o.err /\ o.n = 0 THEN 1 ELSE 0)]
             low_bits == low_bits_of_byte(o.byte)
         IN  IF o.err THEN Returns(f0, "IoError", rpos)
             ELSE IF ShortRead(o.n) THEN Returns(f0, "UnexpectedEndOfData", rpos)
             ELSE IF UnsignedOverflow(low_bits, rd.shift)
                  THEN Returns(f0, "Overflow", rpos + 1)
             ELSE \E s \in ShlOutcomes(low_bits, rd.shift) :
                    LET f1 == [f0 EXCEPT !.byte = o.byte,
                                         !.shifts = @ \cup {rd.shift},
                                         !.result = IF s.panic THEN @ ELSE Or64(@, s.value)]
                    IN  IF s.panic THEN Returns(f1, "Panic", rpos + 1)
                        ELSE IF LastByte(o.byte) THEN Returns(f1, "Ok", rpos + 1)
                        ELSE /\ rd' = [f1 EXCEPT !.shift = @ + PayloadBits]
                             /\ rpos' = rpos + 1
                             /\ rlog' = rlog
    /\ UNCHANGED <<stream, sink, wr, wlog>>

\* One iteration of read::signed's loop.
ReadSignedStep ==
    /\ rd.pc = "loop"
    /\ rd.kind = "signed"
    /\ \E o \in SourceRead(stream, rpos) :
         LET f0 == [rd EXCEPT !.reads = @ + 1,
                              !.zero_reads = @ + (IF ~o.err /\ o.n = 0 THEN 1 ELSE 0)]
             low_bits == low_bits_of_byte(o.byte)
         IN  IF o.err THEN Returns(f0, "IoError", rpos)
             ELSE IF ShortRead(o.n) THEN Returns(f0, "UnexpectedEndOfData", rpos)
             ELSE IF SignedOverflow(low_bits, rd.shift)
                  THEN Returns(f0, "Overflow", rpos + 1)
             ELSE \E s \in ShlOutcomes(low_bits, rd.shift) :
                    LET f1 == [f0 EXCEPT !.byte = o.byte,
                                         !.shifts = @ \cup {rd.shift},
                                         !.result = IF s.panic THEN @ ELSE Or64(@, s.value),
                                         !.shift = @ + PayloadBits]
                    IN  IF s.panic THEN Returns(f1, "Panic", rpos + 1)
                        ELSE /\ rd' = [f1 EXCEPT !.pc = IF LastByte(o.byte) THEN "extend" ELSE "loop"]
                             /\ rpos' = rpos + 1
                             /\ rlog' = rlog
    /\ UNCHANGED <<stream, sink, wr, wlog>>

\* After read::signed's loop: the sign extension and the return.
ReadSignedFinish ==
    /\ rd.pc = "extend"
    /\ IF NeedsSignExtension(rd.shift, rd.byte)
       THEN \E s \in ShlOutcomes(One, rd.shift) :
              IF s.panic THEN Returns([rd EXCEPT !.shifts = @ \cup {rd.shift}], "Panic", rpos)
              ELSE \E m \in NegOutcomes(s.value) :
                     LET f == [rd EXCEPT !.shifts = @ \cup {rd.shift},
                                         !.negated = @ \cup {s.value},
                                         !.result = IF m.panic THEN @ ELSE Or64(@, m.value)]
                     IN  Returns(f, IF m.panic THEN "Panic" ELSE "Ok", rpos)
       ELSE Returns(rd, "Ok", rpos)
    /\ UNCHANGED <<stream, sink, wr, wlog>>

-----------------------------------------------------------------------------
(* The callers: what is written and what is fed to the readers *)

\* The word whose n lowest limbs are a, whose next limb is b and whose higher
\* limbs are c (each cut to its limb's width).
Pattern(n, a, b, c) ==
    [j \in Limbs |-> (IF j <= n THEN a ELSE IF j = n + 1 THEN b ELSE c) % (LimbMax(j) + 1)]

LimbSamples == {0, 1, 2, 63, 64, 126, 127}

\* The values written and read back: among them 0, 1, 127, 128, 2^63-1, 2^63
\* (i64::MIN), 2^64-1 (-1), -2, -128 and a value at each length's boundary.
Values ==
    {Pattern(n, a, b, c) : n \in 0..(NLimbs - 1), a \in LimbSamples,
                           b \in LimbSamples, c \in {0, LimbMax(1)}}

\* The values written back-to-back: 0, 1, 130, 127, -1, -128, i64::MIN, 2^64-2^56.
SmallValues ==
    {Zero64, Pattern(0, 0, 1, 0), Pattern(1, 2, 1, 0), Pattern(0, 0, 127, 0),
     Ones64, Pattern(1, 0, 127, 127), Min64, Pattern(8, 0, 127, 127)}

RECURSIVE Repeat(_, _)
Repeat(b, n) == IF n = 0 THEN <<>> ELSE <<b>> \o Repeat(b, n - 1)

RunBytes == {128, 130, 255}

TailBytes == {0, 1, 2, 64, 126, 127}

Tails == {<<>>} \cup {<<a>> : a \in TailBytes} \cup {<<a, b>> : a, b \in TailBytes}

\* The byte sequences fed to the readers: a run of one byte with its
\* continuation bit set, then up to two free bytes.
Inputs == {Repeat(b, n) \o t : b \in RunBytes, n \in 0..MaxRep, t \in Tails}

Sinks == {[kind |-> "vec", room |-> 0]}
         \cup {[kind |-> k, room |-> n] : k \in {"slice", "failing"}, n \in 0..MaxRoom}

-----------------------------------------------------------------------------
(* Specifications *)

Start ==
    /\ rpos = 0
    /\ wr = WIdle
    /\ rd = RIdle
    /\ wlog = <<>>
    /\ rlog = <<>>

Reads ==
    \/ ReadUnsignedCall
    \/ ReadSignedCall
    \/ ReadUnsignedStep
    \/ ReadSignedStep
    \/ ReadSignedFinish

\* Decoding given bytes.
InitRead ==
    /\ stream \in Inputs
    /\ sink = [kind |-> "vec", room |-> 0]
    /\ Start

NextRead == Reads

SpecRead == InitRead /\ [][NextRead]_vars

\* One value written into an empty stream through any sink, then read back.
InitRoundTrip ==
    /\ stream = <<>>
    /\ sink \in Sinks
    /\ Start

NextRoundTrip ==
    \/ wlog = <<>> /\ \E v \in Values : WriteUnsignedCall(v)
    \/ wlog = <<>> /\ \E v \in Values : WriteSignedCall(v)
    \/ WriteUnsignedStep
    \/ WriteSignedStep
    \/ Reads

SpecRoundTrip == InitRoundTrip /\ [][NextRoundTrip]_vars

\* Values written back-to-back into a growable stream, then read back.
Init ==
    /\ stream = <<>>
    /\ sink = [kind |-> "vec", room |-> 0]
    /\ Start

Next ==
    \/ Len(wlog) < MaxValues /\ \E v \in SmallValues : WriteUnsignedCall(v)
    \/ Len(wlog) < MaxValues /\ \E v \in SmallValues : WriteSignedCall(v)
    \/ WriteUnsignedStep
    \/ WriteSignedStep
    \/ Reads

Spec == Init /\ [][Next]_vars

-----------------------------------------------------------------------------
(* The values byte sequences and words stand for, as 128-adic numbers *)

Radix == 2 ^ PayloadBits

RECURSIVE Norm(_, _)
Norm(ds, fill) ==
    IF ds # <<>> /\ ds[Len(ds)] = fill
    THEN Norm(SubSeq(ds, 1, Len(ds) - 1), fill)
    ELSE [digits |-> ds, fill |-> fill]

\* the integer a u64 holds
NumU64(w) == Norm([j \in Limbs |-> w[j]], 0)

\* the integer an i64 holds: bit 63 repeats in every higher bit
NumI64(w) ==
    Norm([j \in Limbs |-> IF j = NLimbs THEN w[j] * (Radix - 1) ELSE w[j]],
         w[NLimbs] * (Radix - 1))

Payload(bytes) == [i \in 1..Len(bytes) |-> bytes[i] % Radix]

HasContinuation(byte) == byte >= Radix

HasSign(byte) == (byte \div (Radix \div 2)) % 2 = 1

\* sum of (b_i & 0x7F) * 2^(7i)
NumUnsignedLEB(bytes) == Norm(Payload(bytes), 0)

\* that sum, minus 2^(7k) when bit 6 of the last of the k bytes is set
NumSignedLEB(bytes) ==
    Norm(Payload(bytes), IF HasSign(bytes[Len(bytes)]) THEN Radix - 1 ELSE 0)

\* 0 <= x <= 2^64 - 1
FitsU64(x) ==
    /\ x.fill = 0
    /\ \/ Len(x.digits) < NLimbs
       \/ Len(x.digits) = NLimbs /\ x.digits[NLimbs] <= LimbMax(NLimbs)

\* the bytes a returned read:: call consumed
Consumed(e) == SubSeq(stream, e.start + 1, e.end)

\* the bytes of the stream after position p
Rest(p) == SubSeq(stream, p + 1, Len(stream))

Terminated(bytes) == \E i \in 1..Len(bytes) : ~HasContinuation(bytes[i])

\* the bytes up to and including the first one whose continuation bit is clear
FirstSequence(bytes) ==
    SubSeq(bytes, 1, CHOOSE i \in 1..Len(bytes) :
                        /\ ~HasContinuation(bytes[i])
                        /\ \A k \in 1..(i - 1) : HasContinuation(bytes[k]))

\* a write:: call that returned Ok through a sink that took every byte
Complete(w) == w.res = "Ok" /\ w.n = Len(w.emitted)

\* the bytes the sink accepted from write call i
Accepted(i) ==
    SubSeq(stream, wlog[i].start + 1,
           IF i < Len(wlog) THEN wlog[i + 1].start
           ELSE IF wr.pc # "idle" THEN wr.start
           ELSE Len(stream))

-----------------------------------------------------------------------------
(* Round trips (SpecRoundTrip) *)

\* read call i decodes, with the reader of the same kind, what write call 1
\* wrote completely, and its source did not fail
ReadsBack(i, kind) ==
    /\ wlog # <<>>
    /\ wlog[1].kind = kind
    /\ Complete(wlog[1])
    /\ rlog[i].kind = kind
    /\ rlog[i].start = wlog[1].start
    /\ rlog[i].res # "IoError"

\* C1: read::signed on the bytes write::signed(i) produced into a sink that
\* accepts every byte returns Ok(i), never an error, for every i64 i.
C1_SignedRoundTrip ==
    \A i \in 1..Len(rlog) :
        ReadsBack(i, "signed") => rlog[i].res = "Ok" /\ rlog[i].value = wlog[1].arg

\* C2: read::unsigned on the bytes write::unsigned(u) produced into a sink
\* that accepts every byte returns Ok(u), never an error, for every u64 u.
C2_UnsignedRoundTrip ==
    \A i \in 1..Len(rlog) :
        ReadsBack(i, "unsigned") => rlog[i].res = "Ok" /\ rlog[i].value = wlog[1].arg

\* C2 witness: 2^64-1 was written in ten bytes and read back.
C2_Witness ==
    /\ rlog # <<>>
    /\ ReadsBack(1, "unsigned")
    /\ wlog[1].arg = Ones64
    /\ Len(wlog[1].emitted) = NLimbs
    /\ rlog[1].res = "Ok"

-----------------------------------------------------------------------------
(* The encodings (SpecRoundTrip) *)

\* the number of bits of the non-negative value a word holds
BitLength(v) ==
    IF v = Zero64 THEN 0
    ELSE LET top == CHOOSE j \in Limbs : v[j] # 0 /\ \A k \in (j + 1)..NLimbs : v[k] = 0
         IN  (top - 1) * PayloadBits + BitLen(v[top])

CeilDiv(a, b) == (a + b - 1) \div b

\* the i64 v lies in -2^(7k-1) .. 2^(7k-1)-1: k bytes can hold it
FitsSigned(v, k) ==
    /\ \A j \in (k + 1)..NLimbs : v[j] = SignOf(v) * LimbMax(j)
    /\ k < NLimbs => (v[k] \div (Radix \div 2)) % 2 = SignOf(v)

\* the u64 v lies in 0 .. 2^(7k)-1: k bytes can hold it
FitsUnsigned(v, k) == \A j \in (k + 1)..NLimbs : v[j] = 0

WellFormed(bytes) ==
    /\ Len(bytes) \in 1..NLimbs
    /\ \A i \in 1..(Len(bytes) - 1) : HasContinuation(bytes[i])
    /\ ~HasContinuation(bytes[Len(bytes)])

EncodesMinimally(w) ==
    LET n == Len(w.emitted)
        nonneg == w.kind = "unsigned" \/ SignOf(w.arg) = 0
    IN  /\ WellFormed(w.emitted)
        /\ nonneg => n <= CeilDiv(BitLength(w.arg), PayloadBits) + 1
        /\ w.kind = "unsigned" =>
             /\ NumUnsignedLEB(w.emitted) = NumU64(w.arg)
             /\ FitsUnsigned(w.arg, n)
             /\ \A k \in 1..(n - 1) : ~FitsUnsigned(w.arg, k)
             /\ n = IF w.arg = Zero64 THEN 1 ELSE CeilDiv(BitLength(w.arg), PayloadBits)
        /\ w.kind = "signed" =>
             /\ NumSignedLEB(w.emitted) = NumI64(w.arg)
             /\ FitsSigned(w.arg, n)
             /\ \A k \in 1..(n - 1) : ~FitsSigned(w.arg, k)

\* the examples of the DWARF standard the claim lists
EncodingExamples(w) ==
    /\ w.kind = "unsigned" /\ w.arg = Zero64 => w.emitted = <<0>>
    /\ w.kind = "unsigned" /\ w.arg = Pattern(0, 0, 127, 0) => w.emitted = <<127>>
    /\ w.kind = "unsigned" /\ w.arg = Pattern(1, 0, 1, 0) => w.emitted = <<128, 1>>
    /\ w.kind = "signed" /\ w.arg = Pattern(0, 0, 126, 127) => w.emitted = <<126>>
    /\ w.kind = "signed" /\ w.arg = Pattern(0, 0, 127, 0) => w.emitted = <<255, 0>>
    /\ w.kind = "signed" /\ w.arg = Pattern(1, 0, 127, 127) => w.emitted = <<128, 127>>

\* C7: into a sink that accepts every byte, write::unsigned and write::signed
\* emit 1 to 10 bytes, the continuation bit set on all but the last; at most
\* ceil(bitlength(v)/7)+1 bytes for v >= 0; the bytes stand for v and no
\* shorter sequence does (unsigned: max(1, ceil(bitlength(v)/7)) bytes).
C7_MinimalEncoding ==
    \A i \in 1..Len(wlog) :
        Complete(wlog[i]) => EncodesMinimally(wlog[i]) /\ EncodingExamples(wlog[i])

\* C7 witness: 127 was written as a signed value, in the two bytes 0xFF 0x00.
C7_Witness ==
    /\ wlog # <<>>
    /\ Complete(wlog[1])
    /\ wlog[1].kind = "signed"
    /\ wlog[1].arg = Pattern(0, 0, 127, 0)
    /\ wlog[1].emitted = <<255, 0>>

\* C10: whenever write::unsigned or write::signed returns Ok(n), the sink has
\* accepted the complete encoding and n is its length, whatever the sink does;
\* a sink failure ends the call with that failure and no further write.
C10_CompleteWrite ==
    \A i \in 1..Len(wlog) :
        /\ wlog[i].res = "Ok" =>
             /\ Accepted(i) = wlog[i].emitted
             /\ wlog[i].n = Len(wlog[i].emitted)
             /\ WellFormed(wlog[i].emitted)
        /\ wlog[i].res = "Err" =>
             /\ sink.kind = "failing"
             /\ Len(wlog[i].emitted) = Len(Accepted(i)) + 1

-----------------------------------------------------------------------------
(* Decoding given bytes (SpecRead) *)

\* the length of the run at the head of the test's overflowing input
LongRun == 30

\* at least LongRun leading bytes, each with its continuation bit set and a
\* payload that is not zero
StartsWithLongRun(bytes) ==
    /\ Len(bytes) >= LongRun
    /\ \A i \in 1..LongRun : HasContinuation(bytes[i]) /\ bytes[i] % Radix # 0

\* C3: a read:: call ends in Ok, UnexpectedEndOfData, Overflow or IoError; every
\* left shift it executes has a shift amount of at most 63; it never negates
\* the minimum i64.
C3_NoPanic ==
    \A i \in 1..Len(rlog) :
        /\ rlog[i].res \in {"Ok", "UnexpectedEndOfData", "Overflow", "IoError"}
        /\ \A sh \in rlog[i].shifts : sh <= size - 1
        /\ Min64 \notin rlog[i].negated

\* C4: read::unsigned's Ok(v) is the sum of the consumed payloads; a sum (up to
\* the first terminating byte) above 2^64-1, and a head of 30 or more
\* continuation bytes with payloads that are not zero, give Overflow; that head
\* gives an error from read::signed.
C4_UnsignedNoWrap ==
    \A i \in 1..Len(rlog) :
        LET e == rlog[i]
            rest == Rest(e.start)
        IN  /\ e.kind = "unsigned" /\ e.res = "Ok" =>
                 NumU64(e.value) = NumUnsignedLEB(Consumed(e))
            /\ ( /\ e.kind = "unsigned"
                 /\ e.res # "IoError"
                 /\ Terminated(rest)
                 /\ ~FitsU64(NumUnsignedLEB(FirstSequence(rest))) ) =>
                 e.res = "Overflow"
            /\ e.kind = "unsigned" /\ e.res # "IoError" /\ StartsWithLongRun(rest) =>
                 e.res = "Overflow"
            /\ e.kind = "signed" /\ StartsWithLongRun(rest) =>
                 e.res \in {"Overflow", "UnexpectedEndOfData", "IoError"}

\* C4 witness: read::unsigned met a run of continuation bytes with payloads that
\* are not zero, at least 30 long, and returned Overflow.
C4_Witness ==
    \E i \in 1..Len(rlog) :
        /\ rlog[i].kind = "unsigned"
        /\ StartsWithLongRun(Rest(rlog[i].start))
        /\ rlog[i].res = "Overflow"

\* C5: when the source runs dry before a byte with a clear continuation bit and
\* no Overflow was raised, read::unsigned and read::signed return
\* UnexpectedEndOfData (so for the empty input and for 0x80 alone); a read of
\* zero bytes is the call's last read.
C5_Truncation ==
    /\ rd.zero_reads = 0
    /\ \A i \in 1..Len(rlog) :
        LET e == rlog[i]
        IN  /\ ( /\ ~Terminated(Rest(e.start))
                 /\ e.res \notin {"Overflow", "IoError"} ) =>
                 e.res = "UnexpectedEndOfData"
            /\ Rest(e.start) \in {<<>>, <<CONTINUATION_BIT>>} /\ e.res # "IoError" =>
                 e.res = "UnexpectedEndOfData"
            /\ e.zero_reads <= 1
            /\ e.zero_reads = 1 =>
                 /\ e.res = "UnexpectedEndOfData"
                 /\ e.end = Len(stream)
                 /\ e.reads = e.end - e.start + 1

\* C5 witness: read::signed was given 0x80 alone and returned UnexpectedEndOfData.
C5_Witness ==
    /\ stream = <<CONTINUATION_BIT>>
    /\ rlog # <<>>
    /\ rlog[1].kind = "signed"
    /\ rlog[1].res = "UnexpectedEndOfData"
    /\ rlog[1].zero_reads = 1

\* C8: read::unsigned returns Overflow only when the bytes up to the one being
\* processed stand for more than 2^64-1; an input that stands for a value of
\* at most 64 bits is never rejected with Overflow.
C8_OverflowOnlyBeyond64Bits ==
    \A i \in 1..Len(rlog) :
        LET e == rlog[i]
        IN  e.kind = "unsigned" /\ e.res = "Overflow" =>
                ~FitsU64(NumUnsignedLEB(Consumed(e)))

\* C9: read::signed's Ok(v) after k bytes is the 7k-bit payload in two's
\* complement, bit 6 of the last byte being the sign: v is negative only if
\* that bit is set.
C9_SignedValue ==
    \A i \in 1..Len(rlog) :
        LET e == rlog[i]
        IN  e.kind = "signed" /\ e.res = "Ok" =>
                /\ NumI64(e.value) = NumSignedLEB(Consumed(e))
                /\ SignOf(e.value) = 1 => HasSign(stream[e.end])

-----------------------------------------------------------------------------
(* Values written back-to-back (Spec) *)

\* read call i starts where write call i started, with the reader of its kind,
\* both values were written completely and the source did not fail
DecodesValue(i) ==
    /\ Len(wlog) = MaxValues
    /\ \A k \in 1..Len(wlog) : Complete(wlog[k])
    /\ \A k \in 1..i : rlog[k].kind = wlog[k].kind /\ rlog[k].start = wlog[k].start
    /\ rlog[i].res # "IoError"

\* C6: a successful read:: call consumes exactly the bytes up to and including
\* the first one with a clear continuation bit, and successive calls return
\* the values written back-to-back, in order.
C6_StreamComposition ==
    \A i \in 1..Len(rlog) :
        /\ rlog[i].res = "Ok" =>
             Consumed(rlog[i]) = FirstSequence(Rest(rlog[i].start))
        /\ i <= Len(wlog) /\ DecodesValue(i) =>
             rlog[i].res = "Ok" /\ rlog[i].value = wlog[i].arg

=============================================================================
